---------------------------- MODULE Spec2Model ----------------------------
(***************************************************************************)
(* Card generator (abdobasha2004/vercel): the headline wrapper, the SVG    *)
(* layout computed by buildSVG, and the request handlers of the resvg and  *)
(* headless-browser endpoints.                                             *)
(*                                                                         *)
(* Strings are sequences of UTF-16 code units (what String.length counts). *)
(* Vertical positions are kept in half pixels (suffix 2): the dy-relative  *)
(* layout produces baselines at x.5 px.                                    *)
(***************************************************************************)
EXTENDS Integers, Sequences, FiniteSets, TLC

VARIABLES
    wTitle,      \* wrap: the text argument
    wBudget,     \* wrap: the maxPerLine argument
    wMaxLines,   \* wrap: the maxLines argument
    wLines,      \* wrap: the returned array of lines
    wPc,         \* wrap: "ready" | "wrapped"
    lTitle,      \* buildSVG: title
    lW,          \* buildSVG: w (canvas width)
    lH,          \* buildSVG: h (canvas height)
    lFs,         \* buildSVG: fs (font size, px)
    lLhQ,        \* buildSVG: lh (line-height factor), in quarters: lh = lLhQ / 4
    lPlan,       \* buildSVG: the geometry it computed
    lPc,         \* buildSVG: "ready" | "built"
    endpoint,    \* request: the endpoint (source file variant) that serves it
    query,       \* request: req.query, [bg, title, w, fs, lh, debug]
    pc,          \* request: where the handler is
    bgData,      \* request: "none" | "loaded" (the background as a data URL)
    font,        \* request: "unset" | "null" | "empty" | "good" | "placeholder"
    svg,         \* request: the scene buildSVG / buildHtml returned
    raster,      \* request: the Resvg instance: its fonts, whether it rendered
    browser,     \* request: "none" | "open" | "closed" | "closeFailed"
    viewport,    \* request: the page viewport / screenshot clip
    responses,   \* request: the responses sent on res, in order
    cReq,        \* two concurrent requests: each invocation's locals
    cModule      \* two concurrent requests: the module-level bindings

wrapVars == <<wTitle, wBudget, wMaxLines, wLines, wPc>>

layoutVars == <<lTitle, lW, lH, lFs, lLhQ, lPlan, lPc>>

reqVars == <<endpoint, query, pc, bgData, font, svg, raster, browser,
             viewport, responses>>

concVars == <<cReq, cModule>>

vars == <<wTitle, wBudget, wMaxLines, wLines, wPc,
          lTitle, lW, lH, lFs, lLhQ, lPlan, lPc,
          endpoint, query, pc, bgData, font, svg, raster, browser,
          viewport, responses, cReq, cModule>>

---------------------------------------------------------------------------
(* Bounds of the model                                                     *)

MaxTitleLen == 7
MaxBudget == 3
MaxHeight == 12
MaxFontSize == 6
MaxLhQ == 6

---------------------------------------------------------------------------
(* Code units                                                              *)

SPACE == 32

\* the space and two letters
Alphabet == {SPACE, 97, 98}

\* the title of the spec's wrapping example, as UTF-16 code units
ExampleTitle ==
    << 1593, 1575, 1580, 1604, 32, 1582, 1576, 1585, 32, 1575, 1604, 1570,
       1606, 32, 1575, 1582, 1578, 1576, 1575, 1585, 32, 1575, 1604, 1603,
       1578, 1575, 1576, 1577, 32, 1575, 1604, 1591, 1608, 1610, 1604, 1577,
       32, 1580, 1583, 1575, 32, 1593, 1604, 1609, 32, 1575, 1604, 1576,
       1591, 1575, 1602, 1577 >>

\* the placeholder title 'اختبار' of renderPng
PlaceholderTitle == << 1575, 1582, 1578, 1576, 1575, 1585 >>

Range(s) == { s[i] : i \in 1..Len(s) }

Max(a, b) == IF a >= b THEN a ELSE b

Min(a, b) == IF a <= b THEN a ELSE b

\* Math.round on the rational num/den (den > 0): floor(num/den + 1/2)
Round(num, den) == (2 * num + den) \div (2 * den)

\* Math.floor on the rational num/den (den > 0)
Floor(num, den) == num \div den

---------------------------------------------------------------------------
(* wrap / wrapArabic                                                       *)

\* \s of the regular expression, on the code units the model uses
IsSpace(c) == c \in {9, 10, 11, 12, 13, 32}

\* String.prototype.trim
RECURSIVE TrimLeft(_)
TrimLeft(s) ==
    IF s # <<>> /\ IsSpace(Head(s)) THEN TrimLeft(Tail(s)) ELSE s

RECURSIVE TrimRight(_)
TrimRight(s) ==
    IF s # <<>> /\ IsSpace(s[Len(s)])
    THEN TrimRight(SubSeq(s, 1, Len(s) - 1))
    ELSE s

Trim(s) == TrimRight(TrimLeft(s))

\* s.split(/\s+/): every maximal run of whitespace is one separator; the
\* pieces between separators are kept, empty ones included ("" -> [""])
RECURSIVE SplitFrom(_, _, _, _)
SplitFrom(s, i, cur, acc) ==
    IF i > Len(s) THEN Append(acc, cur)
    ELSE IF IsSpace(s[i])
         THEN IF i > 1 /\ IsSpace(s[i - 1])
              THEN SplitFrom(s, i + 1, cur, acc)
              ELSE SplitFrom(s, i + 1, <<>>, Append(acc, cur))
         ELSE SplitFrom(s, i + 1, Append(cur, s[i]), acc)

SplitWs(s) == SplitFrom(s, 1, <<>>, <<>>)

\* `${line} ${w}`
Glue(line, w) == line \o <<SPACE>> \o w

\* t.length <= maxPerLine
FitsOffByOne(t, maxPerLine) == Len(t) <= maxPerLine + 1

FitsStrict(t, maxPerLine) == Len(t) < maxPerLine

Fits(t, maxPerLine) == Len(t) <= maxPerLine

\* the for-loop of wrap over words[i..]; returns the pair <<lines, line>>
\* the loop leaves behind (break included)
RECURSIVE WrapLoop(_, _, _, _, _, _)
WrapLoop(words, i, lines, line, maxPerLine, maxLines) ==
    IF i > Len(words) THEN <<lines, line>>
    ELSE LET w == words[i]
             t == IF line # <<>> THEN Glue(line, w) ELSE w
         IN IF Fits(t, maxPerLine)
            THEN WrapLoop(words, i + 1, lines, t, maxPerLine, maxLines)
            ELSE LET pushed == IF line # <<>> THEN Append(lines, line) ELSE lines
                 IN IF Len(pushed) = maxLines - 1
                    THEN <<pushed, w>>
                    ELSE WrapLoop(words, i + 1, pushed, w, maxPerLine, maxLines)

wrap(text, maxPerLine, maxLines) ==
    LET words == SplitWs(Trim(text))
        r == WrapLoop(words, 1, <<>>, <<>>, maxPerLine, maxLines)
        lines == r[1]
        line == r[2]
    IN IF line # <<>> /\ Len(lines) < maxLines THEN Append(lines, line) ELSE lines

DefaultMaxLines == 3

---------------------------------------------------------------------------
(* buildSVG: the geometry of the card.  lh is a multiple of 1/4 and fs, w, *)
(* h are integers, so every product and quotient below is exact in IEEE    *)
(* double arithmetic, as it is here.                                        *)

WIDTH == 1080
HEIGHT == 1080

\* Math.max(16, Math.round(w / 36))
CharBudgetMinForMax(w) == Min(16, Round(w, 36))

CharBudget(w) == Max(16, Round(w, 36))

\* Math.round(fs * lh)
LineHeightFloor(fs, lhQ) == Floor(fs * lhQ, 4)

LineHeight(fs, lhQ) == Round(fs * lhQ, 4)

\* Math.round(h * 0.24)
BandHeight(h) == Round(24 * h, 100)

\* Math.round(h * 0.60)
BandTop(h) == Round(60 * h, 100)

\* Math.floor(w / 2)
CenterX(w) == Floor(w, 2)

\* Math.round(bandY + bandH/2 - blockH/2)
BaseYNoBlock(bandY, bandH, blockH) == Round(2 * bandY + bandH, 2)

BaseY(bandY, bandH, blockH) == Round(2 * bandY + bandH - blockH, 2)

\* Math.floor(bandY + bandH / 2)
CenterYBandTop(bandY, bandH) == bandY

CenterY(bandY, bandH) == Floor(2 * bandY + bandH, 2)

brandGapTop == 50

\* the badge rectangle: <g transform="translate(w - 220, 60)"> holding
\* <rect x="0" y="0" width="180" height="64">
BadgeAtLeft(w) == [x |-> 220, y |-> 60, width |-> 180, height |-> 64]

Badge(w) == [x |-> w - 220, y |-> 60, width |-> 180, height |-> 64]

\* the y of the i-th tspan (i = 1..n), in half pixels
Baselines2(first2, n, lineH) == [i \in 1..n |-> first2 + 2 * (i - 1) * lineH]

\* buildSVG with absolute line positions (y = baseY + i*lineH)
BuildSVGAbs(title, w, h, fs, lhQ) ==
    LET budget == CharBudget(w)
        lines == wrap(title, budget, 3)
        n == Len(lines)
        bandH == BandHeight(h)
        bandY == BandTop(h)
        lineH == LineHeight(fs, lhQ)
        blockH == (n - 1) * lineH
        baseY == BaseY(bandY, bandH, blockH)
        lastLineY == baseY + (n - 1) * lineH
    IN [ form |-> "abs", budget |-> budget, lines |-> lines,
         lineH |-> lineH, bandH |-> bandH, bandY |-> bandY,
         cx |-> CenterX(w), badge |-> Badge(w),
         baselines2 |-> Baselines2(2 * baseY, n, lineH),
         brandYStart2 |-> 2 * (lastLineY + brandGapTop) ]

\* buildSVG with dy-relative line positions (text y = cy, first tspan
\* dy = startDy, the next ones dy = lineH)
BuildSVGDy(title, w, h, fs, lhQ) ==
    LET budget == CharBudget(w)
        lines == wrap(title, budget, 3)
        n == Len(lines)
        lineH == LineHeight(fs, lhQ)
        bandH == BandHeight(h)
        bandY == BandTop(h)
        cy == CenterY(bandY, bandH)
        startDy2 == -((n - 1) * lineH)
    IN [ form |-> "dy", budget |-> budget, lines |-> lines,
         lineH |-> lineH, bandH |-> bandH, bandY |-> bandY,
         cx |-> CenterX(w), badge |-> Badge(w),
         baselines2 |-> Baselines2(2 * cy + startDy2, n, lineH),
         brandYStart2 |-> 2 * cy + n * lineH + 2 * brandGapTop ]

NoPlan == [ form |-> "none" ]

---------------------------------------------------------------------------
(* The request handlers: data                                              *)

\* the endpoints, one per handler in the sources
Endpoints ==
    { "chromium",          \* src/api/diag.js 128-192: puppeteer + buildHtml
      "puppeteer",         \* src/unnamed/part_003: puppeteer on the remote SVG
      "resvgLocalStrict",  \* src/api/diag.js 285-342: local font, checked
      "resvgGeneric",      \* src/api/diag.js 425-479: fetched font, sans-serif
      "resvgLocal",        \* src/api/diag.js 574-621: local font
      "resvgFetchStrict",  \* src/api/make.js 89-135: fetched font, checked
      "resvgFontFace",     \* src/unnamed/part_001 88-129: @font-face only
      "resvgBoth",         \* src/unnamed/part_001 231-284: bytes + @font-face
      "resvgLenient" }     \* src/unnamed/part_002 90-144: font fetch optional

BrowserEndpoints == {"chromium", "puppeteer"}

ResvgEndpoints == Endpoints \ BrowserEndpoints

\* a query parameter as it arrives: absent, a non-numeric text, or a number
Absent == [k |-> "absent", v |-> 0]

Text == [k |-> "text", v |-> 0]

Num(n) == [k |-> "num", v |-> n]

\* Number(x) || dflt: NaN (absent, non-numeric) and 0 give the default
NumberOr(x, dflt) == IF x.k = "num" /\ x.v # 0 THEN x.v ELSE dflt

\* the title parameter: absent, or a string
AbsentTitle == [k |-> "absent", v |-> <<>>]

Str(s) == [k |-> "str", v |-> s]

\* title || 'اختبار': absent and the empty string give the placeholder
TitleOr(t) == IF t.k = "absent" \/ t.v = <<>> THEN PlaceholderTitle ELSE t.v

\* a JavaScript number that may be NaN
JsNum(n) == [nan |-> FALSE, v |-> n]

JsNaN == [nan |-> TRUE, v |-> 0]

\* parseInt(w || '1080', 10) on a query parameter
ParseIntOr(x, dflt) ==
    IF x.k = "absent" THEN JsNum(dflt)
    ELSE IF x.k = "text" THEN JsNaN
    ELSE JsNum(x.v)

\* Math.max / Math.min with a NaN operand are NaN
JsMax(a, n) == IF a.nan THEN JsNaN ELSE JsNum(Max(a.v, n))

JsMin(a, n) == IF a.nan THEN JsNaN ELSE JsNum(Min(a.v, n))

\* Math.min(Math.max(parseInt(w || '1080', 10), 320), 2000)
ClampWidth(w) == JsMin(JsMax(ParseIntOr(w, 1080), 320), 2000)

\* what loading the font can do: the read or fetch throws, the fetch
\* answers with a non-2xx status, or the bytes arrive (none, or some)
FileOutcomes == {"throws", "empty", "good"}

FetchOutcomes == {"throws", "notok", "empty", "good"}

Thrown == [threw |-> TRUE, font |-> "unset"]

Loaded(f) == [threw |-> FALSE, font |-> f]

\* diag.js 289-301: readFile in try/catch -> FONT_NOT_FOUND, then FONT_EMPTY
LoadFontLocalStrict(o) ==
    IF o = "throws" THEN Thrown
    ELSE IF o = "empty" THEN Thrown
    ELSE Loaded(o)

\* diag.js 579: new Uint8Array(await readFile(LOCAL_FONT_PATH))
LoadFontLocal(o) ==
    IF o = "throws" THEN Thrown ELSE Loaded(o)

\* diag.js 430-432, part_001 236 (fetchBytes): throws unless r.ok
LoadFontFetch(o) ==
    IF o \in {"throws", "notok"} THEN Thrown ELSE Loaded(o)

\* make.js 92-93: fetchBytes, then throw 'font-bytes-empty'
LoadFontFetchStrict(o) ==
    IF o \in {"throws", "notok"} THEN Thrown
    ELSE IF o = "empty" THEN Thrown
    ELSE Loaded(o)

\* part_001 37-44 (loadFontDataUrl): a non-2xx answer gives the placeholder
\* data URL 'data:font/ttf;base64,AA=='
LoadFontDataUrl(o) ==
    IF o = "throws" THEN Thrown
    ELSE IF o = "notok" THEN Loaded("placeholder")
    ELSE Loaded(o)

\* part_002 94-96: fetchBytes in try/catch, the failure only logged
LoadFontLenient(o) ==
    IF o \in {"throws", "notok"} THEN Loaded("null") ELSE Loaded(o)

ReadsLocalFont(e) == e \in {"chromium", "resvgLocalStrict", "resvgLocal"}

FontOutcomes(e) == IF ReadsLocalFont(e) THEN FileOutcomes ELSE FetchOutcomes

LoadFontOf(e, o) ==
    CASE e = "resvgLocalStrict" -> LoadFontLocalStrict(o)
      [] e = "resvgLocal" -> LoadFontLocal(o)
      [] e = "chromium" -> LoadFontLocal(o)
      [] e = "resvgGeneric" -> LoadFontFetch(o)
      [] e = "resvgBoth" -> LoadFontFetch(o)
      [] e = "resvgFetchStrict" -> LoadFontFetchStrict(o)
      [] e = "resvgFontFace" -> LoadFontDataUrl(o)
      [] e = "resvgLenient" -> LoadFontLenient(o)

\* the generic families a rasterizer can remap
GenericFamilies == {"sans-serif", "serif", "monospace"}

\* the font-family list of the headline, brand and badge text layers
TextFamilies(e) ==
    CASE e = "resvgLocalStrict" -> {"Tajawal"}
      [] e = "resvgLocal" -> {"Tajawal"}
      [] e = "resvgFetchStrict" -> {"Tajawal"}
      [] e = "resvgLenient" -> {"Tajawal"}
      [] e = "resvgGeneric" -> {"sans-serif"}
      [] e = "resvgBoth" -> {"TajawalNG", "sans-serif"}
      [] e = "resvgFontFace" -> {"TajawalBold", "Arial"}
      [] e = "chromium" -> {"Tajawal", "sans-serif"}

\* the font-family list of the optional DBG text layer
DebugFamilies(e) ==
    CASE e = "resvgBoth" -> {"sans-serif"}
      [] OTHER -> {"Tajawal"}

\* the endpoints whose buildSVG has the DBG layer
HasDebugLayer(e) ==
    e \in {"resvgLocal", "resvgFetchStrict", "resvgBoth", "resvgLenient"}

\* Number(fs) || 48 (32 in part_001's second endpoint)
DefaultFs(e) == IF e = "resvgBoth" THEN 32 ELSE 48

\* Number(lh) || 1.25, in quarters
DefaultLhQ == 5

\* the layers of the SVG, back to front
SvgLayers(fam, dbgFam, debug) ==
    << [name |-> "background", kind |-> "image", families |-> {},
        rtl |-> FALSE, plaintext |-> FALSE],
       [name |-> "band", kind |-> "rect", families |-> {},
        rtl |-> FALSE, plaintext |-> FALSE],
       [name |-> "bandShadow", kind |-> "rect", families |-> {},
        rtl |-> FALSE, plaintext |-> FALSE],
       [name |-> "headline", kind |-> "text", families |-> fam,
        rtl |-> TRUE, plaintext |-> TRUE],
       [name |-> "brand1", kind |-> "text", families |-> fam,
        rtl |-> TRUE, plaintext |-> FALSE],
       [name |-> "brand2", kind |-> "text", families |-> fam,
        rtl |-> FALSE, plaintext |-> FALSE],
       [name |-> "badge", kind |-> "rect", families |-> {},
        rtl |-> FALSE, plaintext |-> FALSE],
       [name |-> "badgeLabel", kind |-> "text", families |-> fam,
        rtl |-> FALSE, plaintext |-> FALSE] >>
    \o (IF debug
        THEN << [name |-> "debug", kind |-> "text", families |-> dbgFam,
                 rtl |-> FALSE, plaintext |-> FALSE] >>
        ELSE << >>)

\* the geometry of an endpoint's buildSVG: absolute positions in
\* diag.js 231-249, dy-relative positions everywhere else
PlanOf(e, title, w, h, fs, lhQ) ==
    IF e = "resvgLocalStrict"
    THEN BuildSVGAbs(title, w, h, fs, lhQ)
    ELSE BuildSVGDy(title, w, h, fs, lhQ)

\* the buildSVG call of renderPng on the request's query
SceneOf(e, q) ==
    LET w == NumberOr(q.w, WIDTH)
        fs == NumberOr(q.fs, DefaultFs(e))
        lhQ == NumberOr(q.lh, DefaultLhQ)
        debug == HasDebugLayer(e) /\ q.debug
    IN [ kind |-> "svg", w |-> w, h |-> HEIGHT, fs |-> fs, lhQ |-> lhQ,
         title |-> TitleOr(q.title),
         plan |-> PlanOf(e, TitleOr(q.title), w, HEIGHT, fs, lhQ),
         layers |-> SvgLayers(TextFamilies(e), DebugFamilies(e), debug) ]

\* the layers of buildHtml's page, in document order (all positioned, none
\* with a z-index, so document order is paint order); direction is
\* inherited from <html dir="rtl">, unicode-bidi is not inherited
HtmlLayers(fam) ==
    << [name |-> "background", kind |-> "image", families |-> {},
        rtl |-> FALSE, plaintext |-> FALSE],
       [name |-> "bandShadow", kind |-> "rect", families |-> {},
        rtl |-> FALSE, plaintext |-> FALSE],
       [name |-> "band", kind |-> "rect", families |-> {},
        rtl |-> FALSE, plaintext |-> FALSE],
       [name |-> "headline", kind |-> "text", families |-> fam,
        rtl |-> TRUE, plaintext |-> TRUE],
       [name |-> "brand1", kind |-> "text", families |-> fam,
        rtl |-> TRUE, plaintext |-> FALSE],
       [name |-> "brand2", kind |-> "text", families |-> fam,
        rtl |-> TRUE, plaintext |-> FALSE],
       [name |-> "badge", kind |-> "rect", families |-> {},
        rtl |-> FALSE, plaintext |-> FALSE],
       [name |-> "badgeLabel", kind |-> "text", families |-> fam,
        rtl |-> TRUE, plaintext |-> FALSE] >>

\* the buildHtml call of the Chromium handler
HtmlOf(q) ==
    [ kind |-> "html", w |-> WIDTH, h |-> HEIGHT,
      title |-> TitleOr(q.title),
      layers |-> HtmlLayers(TextFamilies("chromium")) ]

NoSvg == [ kind |-> "none" ]

\* the fonts new Resvg(svg, {font: ...}) registers: entries of fontFiles
RegisteredFonts(e, f) ==
    CASE e = "resvgGeneric" -> { [name |-> "TajawalNG", bytes |-> f] }
      [] e = "resvgBoth" -> { [name |-> "TajawalNG", bytes |-> f] }
      [] e = "resvgFontFace" -> {}
      [] e = "resvgLenient" ->
            IF f = "good" THEN { [name |-> "Tajawal", bytes |-> f] } ELSE {}
      [] OTHER -> { [name |-> "Tajawal", bytes |-> f] }

\* the family the options map the generic families to ("" when the
\* endpoint passes no font option)
GenericRemap(e) ==
    CASE e = "resvgGeneric" -> "TajawalNG"
      [] e = "resvgBoth" -> "TajawalNG"
      [] e = "resvgFontFace" -> ""
      [] OTHER -> "Tajawal"

NoRaster == [ constructed |-> FALSE, fonts |-> {}, remap |-> "",
              fitTo |-> 0, rendered |-> FALSE ]

NoViewport == [ w |-> JsNum(0), h |-> 0 ]

NoQuery == [ bg |-> "", title |-> AbsentTitle, w |-> Absent, fs |-> Absent,
             lh |-> Absent, debug |-> FALSE ]

Response(status, kind) == [status |-> status, kind |-> kind]

\* !bg: the background reference is missing (absent or the empty string)
BgMissingNever(q) == FALSE

BgMissing(q) == q.bg = ""

\* !title of required(title, 'title') in part_003
TitleMissing(q) == q.title.k = "absent" \/ q.title.v = <<>>

---------------------------------------------------------------------------
(* Specification of the wrapper: wrap applied to every short title over    *)
(* the alphabet, and to the example title, under every small budget.       *)

RECURSIVE SeqsUpTo(_, _)
SeqsUpTo(S, n) ==
    IF n = 0 THEN {<<>>}
    ELSE LET shorter == SeqsUpTo(S, n - 1)
         IN shorter \cup { Append(s, c) : s \in { x \in shorter : Len(x) = n - 1 }, c \in S }

WrapTitles == SeqsUpTo(Alphabet, MaxTitleLen) \cup {ExampleTitle}

\* the variables of a part of the model that a specification does not run
WrapIdle ==
    /\ wTitle = <<>> /\ wBudget = 1 /\ wMaxLines = DefaultMaxLines
    /\ wLines = <<>> /\ wPc = "idle"

LayoutIdle ==
    /\ lTitle = <<>> /\ lW = WIDTH /\ lH = HEIGHT /\ lFs = 1 /\ lLhQ = 1
    /\ lPlan = NoPlan /\ lPc = "idle"

ReqIdle ==
    /\ endpoint = "none" /\ query = NoQuery /\ pc = "idle"
    /\ bgData = "none" /\ font = "unset" /\ svg = NoSvg /\ raster = NoRaster
    /\ browser = "none" /\ viewport = NoViewport /\ responses = <<>>

\* maxLines: 1, 2 and the default 3 (the only value the program passes)
WrapMaxLines == 1..DefaultMaxLines

\* the module-level bindings the handlers read: const WIDTH, const HEIGHT
ModuleConsts == [WIDTH |-> WIDTH, HEIGHT |-> HEIGHT]

ConcIdle == cReq = <<>> /\ cModule = ModuleConsts

WrapInit ==
    /\ wTitle \in WrapTitles
    /\ wBudget \in 1..MaxBudget
    /\ wMaxLines \in WrapMaxLines
    /\ wLines = <<>>
    /\ wPc = "ready"
    /\ LayoutIdle
    /\ ReqIdle
    /\ ConcIdle

CallWrap ==
    /\ wPc = "ready"
    /\ wLines' = wrap(wTitle, wBudget, wMaxLines)
    /\ wPc' = "wrapped"
    /\ UNCHANGED <<wTitle, wBudget, wMaxLines>>
    /\ UNCHANGED layoutVars
    /\ UNCHANGED reqVars
    /\ UNCHANGED concVars

WrapNext == CallWrap

WrapSpec == WrapInit /\ [][WrapNext]_vars

---------------------------------------------------------------------------
(* Specification of the layout: buildSVG, in both formulations, applied to *)
(* titles of 0, 1, 2 and 3 lines, small and default sizes.                 *)

\* empty, blank, one word, and the example title (2 lines at w = 1080,
\* 3 lines at w = 320)
LayoutTitles == {<<>>, <<SPACE>>, <<97, 98>>, ExampleTitle}

LayoutWidths == {320, WIDTH}

LayoutHeights == (1..MaxHeight) \cup {HEIGHT}

LayoutFontSizes == (1..MaxFontSize) \cup {48}

\* 5 quarters is the default factor 1.25
LayoutLhQs == (1..MaxLhQ) \cup {5}

LayoutInit ==
    /\ lTitle \in LayoutTitles
    /\ lW \in LayoutWidths
    /\ lH \in LayoutHeights
    /\ lFs \in LayoutFontSizes
    /\ lLhQ \in LayoutLhQs
    /\ lPlan = NoPlan
    /\ lPc = "ready"
    /\ WrapIdle
    /\ ReqIdle
    /\ ConcIdle

CallBuildSVGAbs ==
    /\ lPc = "ready"
    /\ lPlan' = BuildSVGAbs(lTitle, lW, lH, lFs, lLhQ)
    /\ lPc' = "built"
    /\ UNCHANGED <<lTitle, lW, lH, lFs, lLhQ>>
    /\ UNCHANGED wrapVars
    /\ UNCHANGED reqVars
    /\ UNCHANGED concVars

CallBuildSVGDy ==
    /\ lPc = "ready"
    /\ lPlan' = BuildSVGDy(lTitle, lW, lH, lFs, lLhQ)
    /\ lPc' = "built"
    /\ UNCHANGED <<lTitle, lW, lH, lFs, lLhQ>>
    /\ UNCHANGED wrapVars
    /\ UNCHANGED reqVars
    /\ UNCHANGED concVars

LayoutNext == CallBuildSVGAbs \/ CallBuildSVGDy

LayoutSpec == LayoutInit /\ [][LayoutNext]_vars

---------------------------------------------------------------------------
(* Specification of the handlers: one request, served by any endpoint,     *)
(* with every outcome of the awaited external operations.                  *)

QueryTitles == {AbsentTitle, Str(<<SPACE>>), Str(ExampleTitle)}

QueryWidths ==
    {Absent, Text, Num(-5), Num(0), Num(100), Num(320), Num(WIDTH), Num(2500)}

QueryFontSizes == {Absent, Num(-1), Num(1), Num(64)}

\* lh in quarters: -0.25, 0, 0.25 and 1.5
QueryLineHeights == {Absent, Num(-1), Num(0), Num(1), Num(6)}

Queries ==
    [ bg : {"", "url"}, title : QueryTitles, w : QueryWidths,
      fs : QueryFontSizes, lh : QueryLineHeights, debug : BOOLEAN ]

Init ==
    /\ endpoint \in Endpoints
    /\ query \in Queries
    /\ pc = "start"
    /\ bgData = "none"
    /\ font = "unset"
    /\ svg = NoSvg
    /\ raster = NoRaster
    /\ browser = "none"
    /\ viewport = NoViewport
    /\ responses = <<>>
    /\ WrapIdle
    /\ LayoutIdle
    /\ ConcIdle

Idle == UNCHANGED wrapVars /\ UNCHANGED layoutVars /\ UNCHANGED concVars

\* the catch block: res.status(500).json({error: 'compose_failed', ...})
SendNothing == UNCHANGED responses

Send500 == responses' = Append(responses, Response(500, "json"))

\* the first awaited step of an endpoint's request
FirstStep(e) ==
    CASE e = "chromium" -> "loadFont"
      [] e = "resvgFontFace" -> "loadFont"
      [] e = "puppeteer" -> "execPath"
      [] OTHER -> "fetchBg"

\* handler: read the query, validate it, start the pipeline
HandlerEntry ==
    /\ pc = "start"
    /\ IF endpoint = "puppeteer"
       THEN IF BgMissing(query) \/ TitleMissing(query)
            THEN Send500 /\ pc' = "done"
            ELSE pc' = FirstStep(endpoint) /\ UNCHANGED responses
       ELSE IF BgMissing(query)
            THEN /\ responses' = Append(responses,
                        Response(400, IF endpoint = "chromium" THEN "json" ELSE "text"))
                 /\ pc' = "done"
            ELSE pc' = FirstStep(endpoint) /\ UNCHANGED responses
    /\ UNCHANGED <<endpoint, query, bgData, font, svg, raster, browser, viewport>>
    /\ Idle

\* renderPng: await toDataUrl(bg) / fetchAsDataUrl(bg)
FetchBackground ==
    /\ pc = "fetchBg"
    /\ \E ok \in BOOLEAN :
          IF ok
          THEN bgData' = "loaded" /\ pc' = "loadFont" /\ UNCHANGED responses
          ELSE Send500 /\ pc' = "done" /\ UNCHANGED bgData
    /\ UNCHANGED <<endpoint, query, font, svg, raster, browser, viewport>>
    /\ Idle

\* renderPng / the Chromium handler: read or fetch the font bytes
LoadFont ==
    /\ pc = "loadFont"
    /\ \E o \in FontOutcomes(endpoint) :
          LET r == LoadFontOf(endpoint, o)
          IN IF r.threw
             THEN Send500 /\ pc' = "done" /\ UNCHANGED <<font, svg>>
             ELSE /\ font' = r.font
                  /\ UNCHANGED responses
                  /\ IF endpoint = "chromium"
                     THEN svg' = HtmlOf(query) /\ pc' = "execPath"
                     ELSE pc' = "render" /\ UNCHANGED svg
    /\ UNCHANGED <<endpoint, query, bgData, raster, browser, viewport>>
    /\ Idle

\* renderPng: buildSVG, new Resvg(svg, options), render().asPng()
Render ==
    /\ pc = "render"
    /\ \E ok \in BOOLEAN :
          /\ svg' = SceneOf(endpoint, query)
          /\ raster' = [ constructed |-> TRUE,
                         fonts |-> RegisteredFonts(endpoint, font),
                         remap |-> GenericRemap(endpoint),
                         fitTo |-> NumberOr(query.w, WIDTH),
                         rendered |-> ok ]
          /\ IF ok
             THEN pc' = "respond" /\ UNCHANGED responses
             ELSE Send500 /\ pc' = "done"
    /\ UNCHANGED <<endpoint, query, bgData, font, browser, viewport>>
    /\ Idle

\* handler: res.status(200).send(png) with Content-Type image/png
SendPng ==
    /\ pc = "respond"
    /\ responses' = Append(responses, Response(200, "png"))
    /\ pc' = "done"
    /\ UNCHANGED <<endpoint, query, bgData, font, svg, raster, browser, viewport>>
    /\ Idle

\* a page operation threw: the catch block answers 500; only part_003 has
\* a finally block that goes on to close the browser
PageThrows ==
    /\ Send500
    /\ pc' = IF endpoint = "puppeteer" THEN "finally" ELSE "done"

\* await chromium.executablePath()
ExecutablePath ==
    /\ pc = "execPath"
    /\ \E o \in {"path", "none", "throws"} :
          IF o = "throws" \/ (o = "none" /\ endpoint = "chromium")
          THEN Send500 /\ pc' = "done"
          ELSE pc' = "launch" /\ UNCHANGED responses
    /\ UNCHANGED <<endpoint, query, bgData, font, svg, raster, browser, viewport>>
    /\ Idle

\* browser = await puppeteer.launch({... defaultViewport ...})
Launch ==
    /\ pc = "launch"
    /\ \E ok \in BOOLEAN :
          IF ok
          THEN /\ browser' = "open"
               /\ viewport' = IF endpoint = "puppeteer"
                              THEN [w |-> ClampWidth(query.w), h |-> 1080]
                              ELSE [w |-> JsNum(WIDTH), h |-> HEIGHT]
               /\ pc' = "newPage"
               /\ UNCHANGED responses
          ELSE Send500 /\ pc' = "done" /\ UNCHANGED <<browser, viewport>>
    /\ UNCHANGED <<endpoint, query, bgData, font, svg, raster>>
    /\ Idle

\* await browser.newPage()
NewPage ==
    /\ pc = "newPage"
    /\ \E ok \in BOOLEAN :
          IF ok THEN pc' = "setViewport" /\ UNCHANGED responses ELSE PageThrows
    /\ UNCHANGED <<endpoint, query, bgData, font, svg, raster, browser, viewport>>
    /\ Idle

\* await page.setViewport({width, height, deviceScaleFactor: 1})
SetViewport ==
    /\ pc = "setViewport"
    /\ \E ok \in BOOLEAN :
          IF ok THEN pc' = "load" /\ UNCHANGED responses ELSE PageThrows
    /\ UNCHANGED <<endpoint, query, bgData, font, svg, raster, browser, viewport>>
    /\ Idle

\* await page.setContent(html) / page.goto(svgUrl, {timeout: 30000}):
\* a load error and the timeout both throw
LoadContent ==
    /\ pc = "load"
    /\ \E o \in {"loaded", "error", "timeout"} :
          IF o = "loaded"
          THEN /\ pc' = IF endpoint = "puppeteer" THEN "evaluate" ELSE "screenshot"
               /\ svg' = IF endpoint = "puppeteer" THEN [kind |-> "remote"] ELSE svg
               /\ UNCHANGED responses
          ELSE PageThrows /\ UNCHANGED svg
    /\ UNCHANGED <<endpoint, query, bgData, font, raster, browser, viewport>>
    /\ Idle

\* await page.evaluate(...) (part_003 only)
Evaluate ==
    /\ pc = "evaluate"
    /\ \E ok \in BOOLEAN :
          IF ok THEN pc' = "screenshot" /\ UNCHANGED responses ELSE PageThrows
    /\ UNCHANGED <<endpoint, query, bgData, font, svg, raster, browser, viewport>>
    /\ Idle

\* await page.screenshot({clip}); part_003 sends the PNG right after it
Screenshot ==
    /\ pc = "screenshot"
    /\ \E ok \in BOOLEAN :
          IF ok
          THEN IF endpoint = "puppeteer"
               THEN /\ responses' = Append(responses, Response(200, "png"))
                    /\ pc' = "finally"
               ELSE pc' = "close" /\ UNCHANGED responses
          ELSE PageThrows
    /\ UNCHANGED <<endpoint, query, bgData, font, svg, raster, browser, viewport>>
    /\ Idle

\* diag.js 184: await browser.close(), reached only after the screenshot
CloseBrowser ==
    /\ pc = "close"
    /\ \E ok \in BOOLEAN :
          IF ok
          THEN browser' = "closed" /\ pc' = "respond" /\ UNCHANGED responses
          ELSE browser' = "closeFailed" /\ Send500 /\ pc' = "done"
    /\ UNCHANGED <<endpoint, query, bgData, font, svg, raster, viewport>>
    /\ Idle

\* part_003 57-61: finally { if (browser) try { await browser.close() } catch {} }
Finally ==
    /\ pc = "finally"
    /\ \E ok \in BOOLEAN :
          browser' = IF ok THEN "closed" ELSE "closeFailed"
    /\ pc' = "done"
    /\ UNCHANGED <<endpoint, query, bgData, font, svg, raster, viewport, responses>>
    /\ Idle

Next ==
    \/ HandlerEntry
    \/ FetchBackground
    \/ LoadFont
    \/ Render
    \/ SendPng
    \/ ExecutablePath
    \/ Launch
    \/ NewPage
    \/ SetViewport
    \/ LoadContent
    \/ Evaluate
    \/ Screenshot
    \/ CloseBrowser
    \/ Finally

Spec == Init /\ [][Next]_vars

\* the requests of the liveness specification: with and without bg and
\* title, w missing or non-numeric, the other parameters left out
LiveQueries ==
    [ bg : {"", "url"}, title : {AbsentTitle, Str(<<97, 98>>)},
      w : {Absent, Text}, fs : {Absent}, lh : {Absent}, debug : {FALSE} ]

LiveInit ==
    /\ endpoint \in Endpoints
    /\ query \in LiveQueries
    /\ pc = "start"
    /\ bgData = "none"
    /\ font = "unset"
    /\ svg = NoSvg
    /\ raster = NoRaster
    /\ browser = "none"
    /\ viewport = NoViewport
    /\ responses = <<>>
    /\ WrapIdle
    /\ LayoutIdle
    /\ ConcIdle

\* every awaited operation returns or throws: the handler's next step is
\* eventually taken
LiveSpec == LiveInit /\ [][Next]_vars /\ WF_vars(Next)

---------------------------------------------------------------------------
(* Specification of two concurrent requests: two invocations of the resvg  *)
(* handler of make.js or of the puppeteer handler of part_003 run in one   *)
(* module instance; each step is one invocation running up to its next     *)
(* await and observing one outcome of the awaited operation.               *)

NoOut == [status |-> 0, kind |-> "none", w |-> JsNum(0), h |-> 0, lines |-> <<>>]

ErrorOut(status, kind) ==
    [status |-> status, kind |-> kind, w |-> JsNum(0), h |-> 0, lines |-> <<>>]

PngOut(w, h, lines) ==
    [status |-> 200, kind |-> "png", w |-> w, h |-> h, lines |-> lines]

\* the locals of an invocation that has just been entered
NewRequest(e, q) ==
    [e |-> e, q |-> q, pc |-> "start", obs |-> <<>>, browser |-> "none",
     out |-> NoOut]

\* what a handler invocation writes to the module-level bindings: nothing
\* (WIDTH, HEIGHT and the font URL are const, browser is a local let)
ModuleWriteWidth(m, r) == [m EXCEPT !.WIDTH = NumberOr(r.q.w, m.WIDTH)]

ModuleWrite(m, r) == m

\* make.js 89-135: handler and renderPng, from one await to the next
RenderPngStep(r, m, o) ==
    LET seen == [r EXCEPT !.obs = Append(@, o)]
        fails == [seen EXCEPT !.pc = "done", !.out = ErrorOut(500, "json")]
    IN CASE r.pc = "start" ->
              IF BgMissing(r.q)
              THEN [seen EXCEPT !.pc = "done", !.out = ErrorOut(400, "text")]
              ELSE [seen EXCEPT !.pc = "fetchBg"]
         [] r.pc = "fetchBg" ->
              IF o = "ok" THEN [seen EXCEPT !.pc = "loadFont"] ELSE fails
         [] r.pc = "loadFont" ->
              IF LoadFontFetchStrict(o).threw THEN fails
              ELSE [seen EXCEPT !.pc = "render"]
         [] r.pc = "render" ->
              LET w == NumberOr(r.q.w, m.WIDTH)
                  plan == BuildSVGDy(TitleOr(r.q.title), w, m.HEIGHT,
                                     NumberOr(r.q.fs, 48), NumberOr(r.q.lh, DefaultLhQ))
              IN IF o = "ok"
                 THEN [seen EXCEPT !.pc = "done",
                                   !.out = PngOut(JsNum(w), m.HEIGHT, plan.lines)]
                 ELSE fails

\* part_003 10-62: the puppeteer handler, from one await to the next
PuppeteerStep(r, m, o) ==
    LET seen == [r EXCEPT !.obs = Append(@, o)]
        caught == [seen EXCEPT !.pc = "finally", !.out = ErrorOut(500, "json")]
        next(p) == IF o = "ok" THEN [seen EXCEPT !.pc = p] ELSE caught
    IN CASE r.pc = "start" ->
              IF BgMissing(r.q) \/ TitleMissing(r.q)
              THEN caught
              ELSE [seen EXCEPT !.pc = "execPath"]
         [] r.pc = "execPath" -> next("launch")
         [] r.pc = "launch" ->
              IF o = "ok"
              THEN [seen EXCEPT !.pc = "newPage", !.browser = "open"]
              ELSE caught
         [] r.pc = "newPage" -> next("setViewport")
         [] r.pc = "setViewport" -> next("load")
         [] r.pc = "load" -> next("evaluate")
         [] r.pc = "evaluate" -> next("screenshot")
         [] r.pc = "screenshot" ->
              IF o = "ok"
              THEN [seen EXCEPT !.pc = "finally",
                                !.out = PngOut(ClampWidth(r.q.w), 1080, <<>>)]
              ELSE caught
         [] r.pc = "finally" ->
              [seen EXCEPT !.pc = "done",
                           !.browser = IF r.browser = "none" THEN "none"
                                       ELSE IF o = "ok" THEN "closed"
                                       ELSE "closeFailed"]

HandlerStep(r, m, o) ==
    IF r.e = "puppeteer" THEN PuppeteerStep(r, m, o) ELSE RenderPngStep(r, m, o)

\* the outcomes of the operation an invocation is about to await
StepOutcomes(r) ==
    CASE r.pc = "start" -> {"entered"}
      [] r.pc = "loadFont" -> FetchOutcomes
      [] r.pc = "finally" /\ r.browser = "none" -> {"skipped"}
      [] OTHER -> {"ok", "throws"}

ConcEndpoints == {"resvgFetchStrict", "puppeteer"}

ConcQueries ==
    [ bg : {"", "url"}, title : {AbsentTitle, Str(<<97, 98>>)},
      w : {Absent, Num(320)}, fs : {Absent}, lh : {Absent}, debug : {FALSE} ]

ConcInit ==
    /\ cReq \in [1..2 -> { NewRequest(e, q) : e \in ConcEndpoints, q \in ConcQueries }]
    /\ cModule = ModuleConsts
    /\ WrapIdle
    /\ LayoutIdle
    /\ ReqIdle

\* one of the two invocations runs up to its next await
HandleStep ==
    /\ \E i \in 1..2 :
          /\ cReq[i].pc # "done"
          /\ \E o \in StepOutcomes(cReq[i]) :
                /\ cReq' = [cReq EXCEPT ![i] = HandlerStep(cReq[i], cModule, o)]
                /\ cModule' = ModuleWrite(cModule, cReq[i])
    /\ UNCHANGED wrapVars
    /\ UNCHANGED layoutVars
    /\ UNCHANGED reqVars

ConcNext == HandleStep

ConcSpec == ConcInit /\ [][ConcNext]_vars

---------------------------------------------------------------------------
(* Properties of the wrapper                                               *)

\* the lines joined with single spaces
RECURSIVE Join(_)
Join(lines) ==
    IF lines = <<>> THEN <<>>
    ELSE IF Len(lines) = 1 THEN lines[1]
    ELSE Glue(lines[1], Join(Tail(lines)))

\* the whitespace-normalized title: trimmed, every whitespace run one space
RECURSIVE CollapseFrom(_, _)
CollapseFrom(s, i) ==
    IF i > Len(s) THEN <<>>
    ELSE IF IsSpace(s[i])
         THEN IF i > 1 /\ IsSpace(s[i - 1])
              THEN CollapseFrom(s, i + 1)
              ELSE <<SPACE>> \o CollapseFrom(s, i + 1)
         ELSE <<s[i]>> \o CollapseFrom(s, i + 1)

NormalizeWs(s) == CollapseFrom(Trim(s), 1)

HasSpace(s) == \E i \in 1..Len(s) : IsSpace(s[i])

\* C1: joining the returned lines with single spaces yields exactly the
\* whitespace-normalized title: no word is dropped, duplicated or reordered,
\* and the words left after the second committed line are all on the third.
C1_JoinReproducesTitle ==
    (wPc = "wrapped" /\ wMaxLines = 3) => Join(wLines) = NormalizeWs(wTitle)

\* C2: for every title and every maxPerLine >= 1, with maxLines = 3, wrap
\* returns at least 1 and at most 3 lines.
C2_OneToThreeLines ==
    (wPc = "wrapped" /\ wMaxLines = 3) => Len(wLines) >= 1 /\ Len(wLines) <= 3

\* C5: every returned line either has length <= maxPerLine or is exactly one
\* word of the title, whole: an over-long word is never split and never
\* shares its line with another word.
C5_LineWithinBudgetOrOneWord ==
    wPc = "wrapped" =>
        \A i \in 1..Len(wLines) :
            \/ Len(wLines[i]) <= wBudget
            \/ /\ ~HasSpace(wLines[i])
               /\ wLines[i] \in Range(SplitWs(Trim(wTitle)))

\* an over-long word was placed alone on a line between other lines
C5_Witness ==
    /\ wPc = "wrapped"
    /\ Len(wLines) = 3
    /\ Len(wLines[2]) > wBudget
    /\ Len(wLines[1]) <= wBudget

\* C23: for every maxLines >= 1, every maxPerLine >= 1 and every title,
\* wrap returns at most maxLines lines.
C23_AtMostMaxLines ==
    (wPc = "wrapped" /\ wMaxLines >= 1 /\ wBudget >= 1) =>
        Len(wLines) <= wMaxLines

\* the first word of a line
FirstWord(line) == SplitWs(line)[1]

\* C17: wrap is greedy: a word is appended to the current line exactly when
\* the line, one space and the word together have length <= maxPerLine; so
\* a line of several words is within the budget, and for every two
\* consecutive output lines the earlier line, a space and the first word of
\* the later line are longer than maxPerLine.
C17_Greedy ==
    wPc = "wrapped" =>
        /\ \A i \in 1..Len(wLines) :
              HasSpace(wLines[i]) => Len(wLines[i]) <= wBudget
        /\ \A i \in 1..(Len(wLines) - 1) :
              Len(Glue(wLines[i], FirstWord(wLines[i + 1]))) > wBudget

\* two words were accumulated on the first line and the third did not fit
C17_Witness ==
    /\ wPc = "wrapped"
    /\ Len(wLines) >= 2
    /\ HasSpace(wLines[1])
    /\ Len(wLines[1]) <= wBudget
    /\ Len(Glue(wLines[1], FirstWord(wLines[2]))) > wBudget

---------------------------------------------------------------------------
(* Properties of the layout                                                *)

Built == lPc = "built"

LineCount == Len(lPlan.lines)

\* twice the vertical midpoint of the headline block, in half pixels: the
\* midpoint is halfway between the first and the last baseline
BlockMid2 == (lPlan.baselines2[1] + lPlan.baselines2[LineCount]) \div 2

\* the band of the claim, in half pixels
BandTop2 == 2 * Round(60 * lH, 100)

BandHeight2 == 2 * Round(24 * lH, 100)

Abs(x) == IF x >= 0 THEN x ELSE -x

\* C3 as stated: at canvasWidth 1080 the character budget is 30 and the
\* nine-word example title is wrapped into exactly 3 lines.
C3_ExampleWrapsToThreeLines ==
    (Built /\ lW = 1080 /\ lTitle = ExampleTitle) =>
        /\ lPlan.budget = 30
        /\ LineCount = 3

\* C3 as amended: at canvasWidth 1080 the character budget is 30 and the
\* example title is wrapped into exactly 2 lines, of 28 and 23 characters,
\* that together hold all nine words.
C3_ExampleWrapsToTwoLines ==
    (Built /\ lW = 1080 /\ lTitle = ExampleTitle) =>
        /\ lPlan.budget = 30
        /\ LineCount = 2
        /\ Len(lPlan.lines[1]) = 28
        /\ Len(lPlan.lines[2]) = 23
        /\ Join(lPlan.lines) = ExampleTitle

C3_Witness ==
    /\ Built /\ lW = 1080 /\ lTitle = ExampleTitle
    /\ lPlan.budget = 30
    /\ Len(SplitWs(Join(lPlan.lines))) = 9

\* C4: the empty (or whitespace-only) title is wrapped into exactly one
\* line, the empty string, and buildSVG places that one-line block centred
\* in the band (its baseline within 1 px of the band's middle).
C4_EmptyTitleOneEmptyLine ==
    (Built /\ Trim(lTitle) = <<>>) =>
        /\ lPlan.lines = << <<>> >>
        /\ Abs(lPlan.baselines2[1] - (BandTop2 + BandHeight2 \div 2)) <= 2

\* C6 as stated: for every line count in 1..3 and every canvas height the
\* midpoint of the headline block lies within the band and within 1 px of
\* the band's middle bandTop + bandHeight/2.
C6_BlockCentredAnyHeight ==
    (Built /\ LineCount \in 1..3) =>
        /\ BandTop2 <= BlockMid2
        /\ BlockMid2 <= BandTop2 + BandHeight2
        /\ Abs(BlockMid2 - (BandTop2 + BandHeight2 \div 2)) <= 2

\* C6 as amended: the midpoint is within 1 px of the band's middle for every
\* canvas height, and it lies within the band for every canvas height
\* h >= 3 (for which bandHeight >= 1), the program's 1080 included.
C6_BlockCentred ==
    (Built /\ LineCount \in 1..3) =>
        /\ Abs(BlockMid2 - (BandTop2 + BandHeight2 \div 2)) <= 2
        /\ lH >= 3 =>
            /\ BandTop2 <= BlockMid2
            /\ BlockMid2 <= BandTop2 + BandHeight2

\* a three-line block, in the absolute formulation, at the program's height
C6_Witness ==
    /\ Built /\ LineCount = 3 /\ lPlan.form = "abs" /\ lH = HEIGHT
    /\ lPlan.baselines2[1] < BlockMid2
    /\ BlockMid2 < lPlan.baselines2[3]

\* the claim's line height round(fontSizePx * lineHeightFactor)
ClaimLineH == Round(lFs * lLhQ, 4)

\* C7 as stated: for fs > 0, lh > 0 and 1..3 lines the baselines strictly
\* increase and consecutive baselines differ by exactly round(fs * lh).
C7_BaselinesStrictlyIncreasing ==
    (Built /\ LineCount \in 1..3 /\ lFs > 0 /\ lLhQ > 0) =>
        \A i \in 1..(LineCount - 1) :
            /\ lPlan.baselines2[i + 1] > lPlan.baselines2[i]
            /\ lPlan.baselines2[i + 1] - lPlan.baselines2[i] = 2 * ClaimLineH

\* C7 as amended: for fs > 0, lh > 0 and 1..3 lines consecutive baselines
\* differ by exactly round(fs * lh) and never decrease; they strictly
\* increase when round(fs * lh) >= 1, i.e. when fs * lh >= 0.5.
C7_BaselinesEvenlySpaced ==
    (Built /\ LineCount \in 1..3 /\ lFs > 0 /\ lLhQ > 0) =>
        \A i \in 1..(LineCount - 1) :
            /\ lPlan.baselines2[i + 1] - lPlan.baselines2[i] = 2 * ClaimLineH
            /\ lPlan.baselines2[i + 1] >= lPlan.baselines2[i]
            /\ ClaimLineH >= 1 => lPlan.baselines2[i + 1] > lPlan.baselines2[i]

\* three lines at the default size 48 px and factor 1.25: 60 px apart
C7_Witness ==
    /\ Built /\ LineCount = 3 /\ lFs = 48 /\ lLhQ = 5
    /\ lPlan.baselines2[2] - lPlan.baselines2[1] = 120
    /\ lPlan.baselines2[3] - lPlan.baselines2[2] = 120

\* C18: for every line count in 1..3 and every font size and line-height
\* factor, the first brand-caption baseline computed by buildSVG is exactly
\* 50 px below the last headline baseline.
C18_BrandFiftyBelowLastBaseline ==
    (Built /\ LineCount \in 1..3) =>
        lPlan.brandYStart2 - lPlan.baselines2[LineCount] = 2 * 50

\* C21: the badge rectangle is 180 x 64 with its top at y = 60 and its left
\* at x = canvasWidth - 220 (right edge 40 px from the canvas's right edge);
\* it depends only on the canvas width, not on the title, the number of
\* lines, the font size or the line-height factor.
C21_BadgeDependsOnWidthOnly ==
    Built =>
        /\ lPlan.badge = [x |-> lW - 220, y |-> 60, width |-> 180, height |-> 64]
        /\ lW - (lPlan.badge.x + lPlan.badge.width) = 40

\* a three-line headline at a non-default size on the narrow canvas
C21_Witness ==
    /\ Built /\ LineCount = 3 /\ lW = 320 /\ lFs # 48
    /\ lPlan.badge.x = 100

\* the same buildSVG call in the other formulation
OtherPlan ==
    IF lPlan.form = "abs"
    THEN BuildSVGDy(lTitle, lW, lH, lFs, lLhQ)
    ELSE BuildSVGAbs(lTitle, lW, lH, lFs, lLhQ)

\* C25: for every canvas height, font size, line-height factor and line
\* count in 1..3, the i-th headline baseline of the absolute formulation and
\* of the dy-relative formulation differ by at most 1 px.
C25_FormulationsWithinOnePixel ==
    (Built /\ LineCount \in 1..3) =>
        /\ Len(OtherPlan.baselines2) = LineCount
        /\ \A i \in 1..LineCount :
              Abs(lPlan.baselines2[i] - OtherPlan.baselines2[i]) <= 2

\* three lines at the program's height, where the two differ by a whole pixel
C25_Witness ==
    /\ Built /\ LineCount = 3 /\ lH = HEIGHT
    /\ lPlan.form = "abs"
    /\ lPlan.baselines2[1] - OtherPlan.baselines2[1] = 2

---------------------------------------------------------------------------
(* Properties of the handlers                                              *)

\* the names under which font bytes are registered with the rasterizer
RegisteredNames == { f.name : f \in raster.fonts }

TextLayers == { i \in 1..Len(svg.layers) : svg.layers[i].kind = "text" }

\* C8: in each resvg endpoint every font-family name a text layer of the
\* generated SVG references is the name the font bytes are registered under,
\* or a generic family the rasterizer options remap to that registered name;
\* no text layer references a family that has no registered bytes.
C8_FontFamiliesAreRegistered ==
    (endpoint \in ResvgEndpoints /\ raster.constructed) =>
        \A i \in TextLayers :
            \A f \in svg.layers[i].families :
                \/ f \in RegisteredNames
                \/ f \in GenericFamilies /\ raster.remap \in RegisteredNames

\* C9: when the font bytes are absent, unreadable, not fetched or
\* zero-length, renderPng fails before the rasterizer is constructed: the
\* rasterizer is never constructed with no font registered, with empty
\* bytes, or with placeholder bytes standing in for the font.
C9_NoRasterizerWithoutFont ==
    raster.constructed =>
        /\ font = "good"
        /\ \E f \in raster.fonts : f.bytes = "good"

\* C10: in the headless-browser endpoints every browser a request launched
\* has been closed (browser.close() called and awaited) when the request
\* finishes, on every exit path.
C10_BrowserClosedWhenDone ==
    (endpoint \in BrowserEndpoints /\ pc = "done") => browser # "open"

SentPng == \E i \in 1..Len(responses) : responses[i] = Response(200, "png")

SentError == \E i \in 1..Len(responses) : responses[i].status >= 400

\* the font load of this request failed (fetch threw or answered non-2xx)
\* and the failure was not raised: no bytes, or the placeholder data URL
FontLoadFailed == font \in {"null", "placeholder"}

\* C11: a PNG response (200, image/png) is sent only if every pipeline step
\* of the request - background load, font load, scene build, rasterization -
\* completed without error; when a step fails the response is the structured
\* error (500, JSON) and no image is sent.
C11_PngOnlyAfterEveryStep ==
    /\ (endpoint \in ResvgEndpoints /\ SentPng) =>
            /\ bgData = "loaded"
            /\ ~FontLoadFailed
            /\ svg.kind = "svg"
            /\ raster.rendered
    /\ (pc = "done" /\ FontLoadFailed) => responses = << Response(500, "json") >>

\* C12: a request with canvasWidth = 0 (query w = 0) is answered with a
\* layout error and no image is laid out or rendered for it.  (In the
\* Chromium handler w is the text width, not the canvas width.)
C12_ZeroWidthIsLayoutError ==
    (query.w = Num(0) /\ ~BgMissing(query) /\ endpoint # "chromium") =>
        /\ svg = NoSvg
        /\ ~raster.constructed
        /\ ~SentPng
        /\ pc = "done" => SentError

\* a query parameter that is a number <= 0
NonPositive(x) == x.k = "num" /\ x.v <= 0

\* C13: whenever buildSVG runs, canvasWidth > 0, fontSizePx > 0 and
\* lineHeightFactor > 0, whatever w, fs and lh the request supplied; a
\* request with a non-positive numeric parameter is rejected with an error
\* instead of being laid out.
C13_LayoutParametersPositive ==
    /\ svg.kind = "svg" => (svg.w > 0 /\ svg.fs > 0 /\ svg.lhQ > 0)
    /\ (endpoint \in ResvgEndpoints /\ ~BgMissing(query)
          /\ (NonPositive(query.w) \/ NonPositive(query.fs) \/ NonPositive(query.lh))) =>
            /\ svg.kind # "svg"
            /\ ~SentPng
            /\ pc = "done" => SentError

\* C14: a request without a background reference is rejected before any
\* core step runs (no background fetch, font read or fetch, browser launch,
\* scene build or rasterization) and its response is an error, never an image.
C14_NoBgRejectedBeforeCore ==
    query.bg = "" =>
        /\ pc \in {"start", "done"}
        /\ bgData = "none" /\ font = "unset" /\ svg = NoSvg
        /\ ~raster.constructed /\ browser = "none"
        /\ ~SentPng
        /\ pc = "done" => (Len(responses) = 1 /\ responses[1].status >= 400)

\* a request without bg was answered 400
C14_Witness ==
    /\ query.bg = "" /\ pc = "done"
    /\ endpoint \in ResvgEndpoints
    /\ responses = << Response(400, "text") >>

\* the canvas width the request asked for: w, or 1080 when none was given
\* (the Chromium handler's canvas is fixed, its w is the text width)
RequestedWidth ==
    IF endpoint # "chromium" /\ query.w.k = "num" THEN query.w.v ELSE WIDTH

\* the pixel size of the PNG: resvg scales the width x height SVG to the
\* fitTo width; the screenshot is the clip, which is the viewport
ImageWidth ==
    IF endpoint \in ResvgEndpoints THEN raster.fitTo ELSE viewport.w.v

ImageHeight ==
    IF endpoint \in ResvgEndpoints
    THEN Round(svg.h * raster.fitTo, svg.w)
    ELSE viewport.h

\* C15: every successfully returned image has exactly the requested canvas
\* dimensions: width = the width the request asked for (1080 when none was
\* given), height = 1080, in the resvg and the headless-browser endpoints.
C15_ImageHasRequestedSize ==
    (SentPng /\ (query.w.k = "absent" \/ (query.w.k = "num" /\ query.w.v > 0))) =>
        /\ ImageWidth = RequestedWidth
        /\ ImageHeight = 1080

\* C16: a request with a background and no title is rendered with the
\* placeholder title, and the missing title is never a reason to fail it:
\* the handler does not reject it on entry.
C16_MissingTitleUsesPlaceholder ==
    /\ [](query.title.k = "absent" /\ svg.kind \in {"svg", "html"}
            => svg.title = PlaceholderTitle)
    /\ [][(pc = "start" /\ ~BgMissing(query) /\ query.title.k = "absent")
            => (pc' # "done" /\ responses' = responses)]_vars

\* the names of the layers of the generated scene, back to front
LayerNames == [i \in 1..Len(svg.layers) |-> svg.layers[i].name]

\* C19: in every generated scene (SVG of buildSVG, HTML of buildHtml) the
\* layers are, back to front: background image, band rectangle, band shadow
\* strip, headline text, brand caption lines, badge rectangle, badge label;
\* the shadow strip is drawn after (on top of) the band rectangle.
C19_LayerOrder ==
    svg.kind \in {"svg", "html"} =>
        SubSeq(LayerNames, 1, 8) =
            << "background", "band", "bandShadow", "headline",
               "brand1", "brand2", "badge", "badgeLabel" >>

\* C20: every text layer of the generated scene (headline, both brand
\* lines, badge label, optional debug label) declares writing direction
\* right-to-left and bidi mode plaintext.
C20_TextLayersRtlPlaintext ==
    svg.kind \in {"svg", "html"} =>
        \A i \in TextLayers : svg.layers[i].rtl /\ svg.layers[i].plaintext

\* C26: in the puppeteer handler the viewport / clip width is always an
\* integer in [320, 2000], for every value of w: missing, below 320, above
\* 2000, and non-numeric text.
C26_PuppeteerWidthClamped ==
    (endpoint = "puppeteer" /\ browser # "none") =>
        /\ ~viewport.w.nan
        /\ viewport.w.v \in 320..2000

\* C27: for every canvas width a resvg handler accepts and passes to
\* buildSVG the badge rectangle lies entirely inside the canvas:
\* 0 <= w - 220, w - 220 + 180 <= w and 60 + 64 <= 1080.
C27_BadgeInsideCanvas ==
    (endpoint \in ResvgEndpoints /\ svg.kind = "svg") =>
        /\ 0 <= svg.plan.badge.x
        /\ svg.plan.badge.x + svg.plan.badge.width <= svg.w
        /\ 0 <= svg.plan.badge.y
        /\ svg.plan.badge.y + svg.plan.badge.height <= svg.h

\* C24: every handler invocation eventually sends exactly one response
\* (200 with PNG, 400, or 500 with the JSON error), never zero and never
\* two, on every path, provided each awaited operation returns or throws.
C24_ExactlyOneResponse ==
    /\ [](Len(responses) <= 1)
    /\ [](pc = "done" => Len(responses) = 1)
    /\ <>(pc = "done" /\ Len(responses) = 1
           /\ responses[1] \in { Response(200, "png"), Response(400, "text"),
                                  Response(400, "json"), Response(500, "json") })

\* the browser was launched, a page operation threw, and the one response
\* is the error
C24_Witness ==
    /\ pc = "done" /\ browser \in {"closed", "closeFailed"}
    /\ responses = << Response(500, "json") >>

\* the same invocation handled alone: its steps run one after the other on
\* a fresh module instance, observing the outcomes obs[i..]
RECURSIVE SoloRun(_, _, _, _)
SoloRun(r, m, obs, i) ==
    IF i > Len(obs) THEN r
    ELSE SoloRun(HandlerStep(r, m, obs[i]), ModuleWrite(m, r), obs, i + 1)

Solo(r) == SoloRun(NewRequest(r.e, r.q), ModuleConsts, r.obs, 1)

\* C22: when two requests are handled concurrently, in any interleaving of
\* their awaited steps, each response (status and scene / image content) is
\* what the request would get if handled alone with the same parameters and
\* the same observed external results; no handler writes module-level state.
C22_RequestsIsolated ==
    /\ cModule = ModuleConsts
    /\ \A i \in DOMAIN cReq :
          /\ cReq[i].out = Solo(cReq[i]).out
          /\ cReq[i].pc = Solo(cReq[i]).pc

\* both requests, served by different handlers, were answered with an
\* image, of different widths
C22_Witness ==
    /\ DOMAIN cReq = 1..2
    /\ cReq[1].pc = "done" /\ cReq[2].pc = "done"
    /\ cReq[1].out.status = 200 /\ cReq[2].out.status = 200
    /\ cReq[1].out.w # cReq[2].out.w
    /\ cReq[1].e # cReq[2].e

=============================================================================
